---------------------------- MODULE Spec2Model ----------------------------
(***************************************************************************)
(* A model of kr, the Kotlin renamer (internal/renamer).                   *)
(*                                                                         *)
(* A source buffer is a sequence of one-character strings.  Offsets are    *)
(* zero-based and spans are half-open, as in the Go source: Slice(s,lo,hi) *)
(* is s[lo:hi] and At(s,i) is s[i].                                        *)
(***************************************************************************)
EXTENDS Integers, Sequences, FiniteSets, TLC

\* ------------------------------------------------------------------ bounds
\* number of fragments a generated buffer is built from
MaxFrags == 3
\* number of reads of the name inside a generated function body
MaxUses == 2

\* ------------------------------------------------------- string primitives
Slice(s, lo, hi) == SubSeq(s, lo + 1, hi)

At(s, i) == s[i + 1]

HasSuffix(s, suffix) ==
    /\ Len(s) >= Len(suffix)
    /\ Slice(s, Len(s) - Len(suffix), Len(s)) = suffix

HasPrefixAt(s, i, sub) ==
    /\ i + Len(sub) <= Len(s)
    /\ Slice(s, i, i + Len(sub)) = sub

RECURSIVE TrimLeft(_, _)
TrimLeft(s, cutset) ==
    IF Len(s) > 0 /\ s[1] \in cutset THEN TrimLeft(Tail(s), cutset) ELSE s

RECURSIVE TrimRight(_, _)
TrimRight(s, cutset) ==
    IF Len(s) > 0 /\ s[Len(s)] \in cutset
    THEN TrimRight(SubSeq(s, 1, Len(s) - 1), cutset)
    ELSE s

\* strings.Index: offset of the first occurrence of sub in s, or -1
Index(s, sub) ==
    LET hits == {i \in 0..Len(s) : HasPrefixAt(s, i, sub)}
    IN  IF hits = {} THEN -1
        ELSE CHOOSE i \in hits : \A j \in hits : i <= j

SpaceTab == {" ", "\t"}

\* ------------------------------------------------------------ utilities
Lower == {"a","b","c","d","e","f","g","h","i","j","k","l","m",
          "n","o","p","q","r","s","t","u","v","w","x","y","z"}

Upper == {"A","B","C","D","E","F","G","H","I","J","K","L","M",
          "N","O","P","Q","R","S","T","U","V","W","X","Y","Z"}

Digit == {"0","1","2","3","4","5","6","7","8","9"}

isIdentChar(c) == c \in Lower \/ c \in Upper \/ c \in Digit \/ c = "_"

\* ------------------------------------------------------ regular expressions
\* \w of the regexp package (ASCII word characters)
IsWordChar(c) == c \in Lower \cup Upper \cup Digit \cup {"_"}

\* \b at offset p: exactly one of the two neighbours is a word character
WordBoundaryAt(s, p) ==
    LET before == p > 0 /\ IsWordChar(At(s, p - 1))
        after  == p < Len(s) /\ IsWordChar(At(s, p))
    IN  before # after

\* does \b<lit>\b match at offset i
MatchWordAt(s, lit, i) ==
    /\ HasPrefixAt(s, i, lit)
    /\ WordBoundaryAt(s, i)
    /\ WordBoundaryAt(s, i + Len(lit))

\* FindAllStringIndex of \b<lit>\b: leftmost, non-overlapping spans <<start, end>>
RECURSIVE FindAllFrom(_, _, _)
FindAllFrom(s, lit, i) ==
    IF i + Len(lit) > Len(s) THEN <<>>
    ELSE IF MatchWordAt(s, lit, i)
         THEN <<<<i, i + Len(lit)>>>> \o FindAllFrom(s, lit, i + Len(lit))
         ELSE FindAllFrom(s, lit, i + 1)

FindAllStringIndex(s, lit) == FindAllFrom(s, lit, 0)

\* ------------------------------------------------------ context predicates
\* a class predicate that takes a following ( for a method call
isClassContextNoCall(src, start, end) ==
    /\ ~(start > 0 /\ isIdentChar(At(src, start - 1)))
    /\ ~(end < Len(src) /\ isIdentChar(At(src, end)))
    /\ ~(end < Len(src) /\ At(src, end) = "(")

isClassContext(src, start, end) ==
    LET pre  == Slice(src, 0, start)
        post == Slice(src, end, Len(src))
    IN  IF Len(pre) > 0 /\ isIdentChar(pre[Len(pre)]) THEN FALSE
        ELSE IF Len(post) > 0 /\ isIdentChar(post[1]) THEN FALSE
        ELSE TRUE

\* the ClassName field of the receiver is not read
isMethodContext(ClassName, src, start, end) ==
    LET pre        == Slice(src, 0, start)
        post       == TrimLeft(Slice(src, end, Len(src)), SpaceTab)
        trimmedPre == TrimRight(pre, SpaceTab)
    IN  IF Len(pre) > 0 /\ isIdentChar(pre[Len(pre)]) THEN FALSE
        ELSE IF Len(post) > 0 /\ isIdentChar(post[1]) THEN FALSE
        ELSE IF HasSuffix(trimmedPre, <<":", ":">>) THEN TRUE
        ELSE IF HasSuffix(trimmedPre, <<"f", "u", "n">>) THEN TRUE
        ELSE IF Len(post) > 0 /\ post[1] = "(" THEN TRUE
        ELSE FALSE

\* the ClassName field of the receiver is not read
isPropertyContext(ClassName, src, start, end) ==
    LET pre        == Slice(src, 0, start)
        post       == TrimLeft(Slice(src, end, Len(src)), SpaceTab)
        trimmedPre == TrimRight(pre, SpaceTab)
    IN  IF Len(pre) > 0 /\ isIdentChar(pre[Len(pre)]) THEN FALSE
        ELSE IF Len(post) > 0 /\ isIdentChar(post[1]) THEN FALSE
        ELSE IF HasSuffix(trimmedPre, <<".">>) THEN TRUE
        ELSE IF \/ HasSuffix(trimmedPre, <<"v", "a", "l">>)
                \/ HasSuffix(trimmedPre, <<"v", "a", "r">>) THEN TRUE
        ELSE IF /\ Len(post) > 0
                /\ post[1] = "="
                /\ (Len(post) < 2 \/ post[2] # "=") THEN TRUE
        ELSE IF Len(post) > 0 /\ post[1] = ":" THEN TRUE
        ELSE IF Len(post) = 0 \/ post[1] # "(" THEN TRUE
        ELSE FALSE

isParameterContext(src, start, end) ==
    LET pre      == Slice(src, 0, start)
        post     == Slice(src, end, Len(src))
        trimPost == TrimLeft(post, SpaceTab)
    IN  IF Len(pre) > 0 /\ isIdentChar(pre[Len(pre)]) THEN FALSE
        ELSE IF Len(post) > 0 /\ isIdentChar(post[1]) THEN FALSE
        ELSE IF Len(trimPost) > 0 /\ trimPost[1] = "(" THEN FALSE
        ELSE TRUE

\* The contextFn argument of singlePassRename: a renamer is the record
\* [kind, ClassName]; its bound method value is applied here.
contextFn(r, src, start, end) ==
    CASE r.kind = "class"     -> isClassContext(src, start, end)
      [] r.kind = "method"    -> isMethodContext(r.ClassName, src, start, end)
      [] r.kind = "property"  -> isPropertyContext(r.ClassName, src, start, end)
      [] r.kind = "parameter" -> isParameterContext(src, start, end)

\* ------------------------------------------------------------- core engine
\* a loop that counts every match, accepted or not
RECURSIVE singlePassLoopCountAll(_, _, _, _, _, _, _)
singlePassLoopCountAll(src, newName, r, locs, buf, last, count) ==
    IF locs = <<>>
    THEN [text |-> buf \o Slice(src, last, Len(src)), count |-> count]
    ELSE LET start == Head(locs)[1]
             end   == Head(locs)[2]
         IN  IF contextFn(r, src, start, end)
             THEN singlePassLoopCountAll(src, newName, r, Tail(locs),
                                         buf \o Slice(src, last, start) \o newName,
                                         end, count + 1)
             ELSE singlePassLoopCountAll(src, newName, r, Tail(locs),
                                         buf, last, count + 1)

\* the loop of singlePassRename over the remaining matches; buf, last and
\* count are the loop's locals
RECURSIVE singlePassLoop(_, _, _, _, _, _, _)
singlePassLoop(src, newName, r, locs, buf, last, count) ==
    IF locs = <<>>
    THEN [text |-> buf \o Slice(src, last, Len(src)), count |-> count]
    ELSE LET start == Head(locs)[1]
             end   == Head(locs)[2]
         IN  IF contextFn(r, src, start, end)
             THEN singlePassLoop(src, newName, r, Tail(locs),
                                 buf \o Slice(src, last, start) \o newName,
                                 end, count + 1)
             ELSE singlePassLoop(src, newName, r, Tail(locs), buf, last, count)

\* a rename by plain substring replacement (strings.ReplaceAll), without the
\* word-boundary pattern and without the context predicate
RECURSIVE replaceAllFrom(_, _, _, _)
replaceAllFrom(src, oldName, newName, i) ==
    IF i + Len(oldName) > Len(src)
    THEN [text |-> Slice(src, i, Len(src)), count |-> 0]
    ELSE IF HasPrefixAt(src, i, oldName)
         THEN LET rest == replaceAllFrom(src, oldName, newName, i + Len(oldName))
              IN  [text |-> newName \o rest.text, count |-> rest.count + 1]
         ELSE LET rest == replaceAllFrom(src, oldName, newName, i + 1)
              IN  [text |-> <<At(src, i)>> \o rest.text, count |-> rest.count]

singlePassReplaceAll(src, oldName, newName, r) ==
    replaceAllFrom(src, oldName, newName, 0)

singlePassRename(src, oldName, newName, r) ==
    singlePassLoop(src, newName, r, FindAllStringIndex(src, oldName),
                   <<>>, 0, 0)

\* ------------------------------------------- brace/paren matching helpers
\* the scan of findMatchingParen from offset i with the depth reached so far
RECURSIVE parenScan(_, _, _)
parenScan(src, i, depth) ==
    IF i >= Len(src) THEN -1
    ELSE IF At(src, i) = "(" THEN parenScan(src, i + 1, depth + 1)
    ELSE IF At(src, i) = ")"
         THEN IF depth - 1 = 0 THEN i ELSE parenScan(src, i + 1, depth - 1)
    ELSE parenScan(src, i + 1, depth)

findMatchingParen(src, open) == parenScan(src, open, 0)

RECURSIVE braceScan(_, _, _)
braceScan(src, i, depth) ==
    IF i >= Len(src) THEN -1
    ELSE IF At(src, i) = "{" THEN braceScan(src, i + 1, depth + 1)
    ELSE IF At(src, i) = "}"
         THEN IF depth - 1 = 0 THEN i ELSE braceScan(src, i + 1, depth - 1)
    ELSE braceScan(src, i + 1, depth)

findMatchingBrace(src, open) == braceScan(src, open, 0)

\* first offset >= i whose character is not in skip, or Len(src)
RECURSIVE skipWhile(_, _, _)
skipWhile(src, i, skip) ==
    IF i < Len(src) /\ At(src, i) \in skip THEN skipWhile(src, i + 1, skip) ELSE i

\* first offset >= i whose character is in stop, or Len(src)
RECURSIVE skipUntil(_, _, _)
skipUntil(src, i, stop) ==
    IF i < Len(src) /\ At(src, i) \notin stop THEN skipUntil(src, i + 1, stop) ELSE i

\* <<bodyStart, bodyEnd>>, or <<-1, -1>> when there is no body
findFunctionBody(src, afterParams) ==
    LET i0 == skipWhile(src, afterParams, {" ", "\t", "\n", "\r"})
        i  == IF i0 < Len(src) /\ At(src, i0) = ":"
              THEN skipUntil(src, i0, {"{", "=", "\n"})
              ELSE i0
    IN  IF i >= Len(src) THEN <<-1, -1>>
        ELSE IF At(src, i) = "{"
             THEN LET end == findMatchingBrace(src, i)
                  IN  IF end < 0 THEN <<-1, -1>> ELSE <<i, end + 1>>
        ELSE IF At(src, i) = "="
             THEN LET lineEnd == Index(Slice(src, i, Len(src)), <<"\n">>)
                  IN  IF lineEnd < 0 THEN <<i, Len(src)>>
                      ELSE <<i, i + lineEnd + 1>>
        ELSE <<-1, -1>>

\* -------------------------------------------------------- parameter rename
\* \s of the regexp package
RegexSpace == {"\t", "\n", "\f", "\r", " "}

\* a test for the name anywhere in the parameter section, declared or not
hasParamNameNoColon(paramSection, oldName) ==
    \E i \in 0..Len(paramSection) : MatchWordAt(paramSection, oldName, i)

\* MatchString of \b<oldName>\s*: on the parameter section
hasParamName(paramSection, oldName) ==
    \E i \in 0..Len(paramSection) :
        /\ HasPrefixAt(paramSection, i, oldName)
        /\ WordBoundaryAt(paramSection, i)
        /\ LET j == skipWhile(paramSection, i + Len(oldName), RegexSpace)
           IN  j < Len(paramSection) /\ At(paramSection, j) = ":"

ParameterRenamer == [kind |-> "parameter", ClassName |-> <<>>]

\* One iteration of the loop of renameParameters for the match loc of
\* \bfun\b in the original buffer.  st holds the loop's variables result,
\* offset and total; panic is set when a slice expression is out of range.
renameParametersIter(st, loc, oldName, newName) ==
    LET result   == st.result
        funStart == loc[1] + st.offset
    IN  IF funStart < 0 \/ funStart > Len(result)
        THEN [st EXCEPT !.panic = TRUE]
        ELSE
        LET rel == Index(Slice(result, funStart, Len(result)), <<"(">>)
            parenOpen  == rel + funStart
            parenClose == findMatchingParen(result, parenOpen)
        IN  IF rel < 0 THEN st
            ELSE IF parenClose < 0 THEN st
            ELSE
            LET paramSection == Slice(result, parenOpen, parenClose + 1)
                body      == findFunctionBody(result, parenClose + 1)
                bodyEnd   == IF body[1] < 0 THEN parenClose + 1 ELSE body[2]
                scopeContent == Slice(result, parenOpen, bodyEnd)
                renamed   == singlePassRename(scopeContent, oldName, newName,
                                              ParameterRenamer)
            IN  IF ~hasParamName(paramSection, oldName) THEN st
                ELSE IF renamed.count > 0
                THEN [result |-> Slice(result, 0, parenOpen) \o renamed.text
                                   \o Slice(result, bodyEnd, Len(result)),
                      offset |-> st.offset + Len(renamed.text) - Len(scopeContent),
                      total  |-> st.total + renamed.count,
                      panic  |-> FALSE]
                ELSE st

\* the loop of renameParameters over the matches of \bfun\b still to visit
RECURSIVE renameParametersLoop(_, _, _, _)
renameParametersLoop(st, locs, oldName, newName) ==
    IF locs = <<>> \/ st.panic THEN st
    ELSE renameParametersLoop(renameParametersIter(st, Head(locs), oldName, newName),
                              Tail(locs), oldName, newName)

\* renameParameters: [text, count], and panic set when the call panicked
renameParameters(src, oldName, newName) ==
    LET st == renameParametersLoop(
                  [result |-> src, offset |-> 0, total |-> 0, panic |-> FALSE],
                  FindAllStringIndex(src, <<"f", "u", "n">>), oldName, newName)
    IN  [text |-> st.result, count |-> st.total, panic |-> st.panic]

\* a call that returned out, a buffer and a count, and did not panic
returned(out) == [text |-> out.text, count |-> out.count, panic |-> FALSE]

\* the function returned by buildRenameFn for the renamer r, applied to content
renameFn(r, content, oldName, newName) ==
    IF r.kind = "parameter"
    THEN renameParameters(content, oldName, newName)
    ELSE returned(singlePassRename(content, oldName, newName, r))

\* ------------------------------------------------------ move.go: the patterns
\* regexp \w
WordChars == Lower \cup Upper \cup Digit \cup {"_"}

\* (?m)^ at offset i
LineStartAt(s, i) == i = 0 \/ At(s, i - 1) = "\n"

\* (?m)$ at offset i
LineEndAt(s, i) == i = Len(s) \/ At(s, i) = "\n"

\* the largest of a non-empty set of offsets
MaxOf(S) == CHOOSE e \in S : \A f \in S : f <= e

\* \s*$ from offset from: the end the greedy \s* settles on, or -1
trailEnd(s, from) ==
    LET ends == {e \in from..skipWhile(s, from, RegexSpace) : LineEndAt(s, e)}
    IN  IF ends = {} THEN -1 ELSE MaxOf(ends)

\* as\s+\w+\s*$ from offset a: the end of the match, or -1
aliasEnd(s, a) ==
    IF ~HasPrefixAt(s, a, <<"a", "s">>) THEN -1
    ELSE LET b == skipWhile(s, a + 2, RegexSpace)
             c == skipWhile(s, b, WordChars)
         IN  IF b = a + 2 \/ c = b THEN -1 ELSE trailEnd(s, c)

\* (\s*(?:as\s+\w+)?\s*)$ from offset j: the end of the first parse that
\* succeeds in the matcher's order of preference (longest first \s*, the
\* optional group taken before it is skipped), or -1
suffixEnd(s, j) ==
    LET try(a) == IF aliasEnd(s, a) # -1 THEN aliasEnd(s, a) ELSE trailEnd(s, a)
        good   == {a \in j..skipWhile(s, j, RegexSpace) : try(a) # -1}
    IN  IF good = {} THEN -1 ELSE try(MaxOf(good))

\* the match of the pattern of rewriteImport that starts at offset i:
\* <<start of the quoted name, end of the match>>, or <<-1, -1>>
importMatchAt(s, i, oldFQN) ==
    IF ~(LineStartAt(s, i) /\ HasPrefixAt(s, i, <<"i", "m", "p", "o", "r", "t">>))
    THEN <<-1, -1>>
    ELSE LET a    == i + 6
             good == {k \in (a + 1)..skipWhile(s, a, RegexSpace) :
                         /\ HasPrefixAt(s, k, oldFQN)
                         /\ suffixEnd(s, k + Len(oldFQN)) # -1}
         IN  IF good = {} THEN <<-1, -1>>
             ELSE <<MaxOf(good), suffixEnd(s, MaxOf(good) + Len(oldFQN))>>

\* pat.ReplaceAllString(s, "${1}" + newFQN + "${2}"), from offset i on
RECURSIVE expandFrom(_, _, _, _)
expandFrom(s, oldFQN, newFQN, i) ==
    LET m == importMatchAt(s, i, oldFQN)
    IN  IF m[2] # -1
        THEN Slice(s, i, m[1]) \o newFQN \o Slice(s, m[1] + Len(oldFQN), m[2])
                 \o expandFrom(s, oldFQN, newFQN, m[2])
        ELSE IF i >= Len(s) THEN <<>>
        ELSE <<At(s, i)>> \o expandFrom(s, oldFQN, newFQN, i + 1)

\* pat.ReplaceAllStringFunc(content, ...) from offset i on, with the closure's
\* counter
RECURSIVE rewriteImportFrom(_, _, _, _)
rewriteImportFrom(content, oldFQN, newFQN, i) ==
    LET m == importMatchAt(content, i, oldFQN)
    IN  IF m[2] # -1
        THEN LET rest == rewriteImportFrom(content, oldFQN, newFQN, m[2])
             IN  [text  |-> expandFrom(Slice(content, i, m[2]), oldFQN, newFQN, 0)
                                \o rest.text,
                  count |-> rest.count + 1]
        ELSE IF i >= Len(content) THEN [text |-> <<>>, count |-> 0]
        ELSE LET rest == rewriteImportFrom(content, oldFQN, newFQN, i + 1)
             IN  [text |-> <<At(content, i)>> \o rest.text, count |-> rest.count]

\* rewriteImport: [text, count]
rewriteImport(content, oldFQN, newFQN) ==
    rewriteImportFrom(content, oldFQN, newFQN, 0)

\* the match of packageDeclPat, (?m)^package\s+[\w.]+, that starts at offset
\* i: its end, or -1
packageDeclAt(s, i) ==
    IF ~(LineStartAt(s, i) /\ HasPrefixAt(s, i, <<"p", "a", "c", "k", "a", "g", "e">>)) THEN -1
    ELSE LET b == skipWhile(s, i + 7, RegexSpace)
             c == skipWhile(s, b, WordChars \cup {"."})
         IN  IF b = i + 7 \/ c = b THEN -1 ELSE c

\* packageDeclPat.FindString(src): <<start, end>> of the first match, or
\* <<-1, -1>>
packageDeclFind(s) ==
    LET starts == {i \in 0..Len(s) : packageDeclAt(s, i) # -1}
    IN  IF starts = {} THEN <<-1, -1>>
        ELSE LET i == CHOOSE a \in starts : \A b \in starts : a <= b
             IN  <<i, packageDeclAt(s, i)>>

\* extractPackage
extractPackage(src) ==
    LET m == packageDeclFind(src)
    IN  IF m[1] = -1 THEN <<>>
        ELSE TrimRight(TrimLeft(Slice(src, m[1] + 7, m[2]), RegexSpace), RegexSpace)

\* a rewrite that prepends the declaration whatever the buffer holds
prependPackageDeclaration(src, newPackage) ==
    <<"p", "a", "c", "k", "a", "g", "e", " ">> \o newPackage \o <<"\n", "\n">> \o src

\* packageDeclPat.ReplaceAllString(src, "package " + newPackage), from i on
RECURSIVE replacePackageFrom(_, _, _)
replacePackageFrom(src, newPackage, i) ==
    IF packageDeclAt(src, i) # -1
    THEN <<"p", "a", "c", "k", "a", "g", "e", " ">> \o newPackage
             \o replacePackageFrom(src, newPackage, packageDeclAt(src, i))
    ELSE IF i >= Len(src) THEN <<>>
    ELSE <<At(src, i)>> \o replacePackageFrom(src, newPackage, i + 1)

\* rewritePackageDeclaration
rewritePackageDeclaration(src, newPackage) ==
    IF packageDeclFind(src)[1] # -1
    THEN replacePackageFrom(src, newPackage, 0)
    ELSE <<"p", "a", "c", "k", "a", "g", "e", " ">> \o newPackage \o <<"\n", "\n">> \o src

\* --------------------------------------------------------- move.go: the paths
\* A path is an absolute, clean path: "/" followed by names separated by "/".

\* offset of the last separator of the path p
lastSeparator(p) == MaxOf({i \in 0..(Len(p) - 1) : At(p, i) = "/"})

\* filepath.Dir
Dir(p) == IF lastSeparator(p) = 0 THEN <<"/">> ELSE Slice(p, 0, lastSeparator(p))

\* filepath.Base
Base(p) == IF p = <<"/">> THEN p ELSE Slice(p, lastSeparator(p) + 1, Len(p))

\* filepath.Join of a directory and a relative path
Join(dir, rel) == IF dir = <<"/">> THEN dir \o rel ELSE dir \o <<"/">> \o rel

\* the loop of computeNewPath from dir upwards: the source root it stops at,
\* or <<>> when it ends without one
RECURSIVE sourceRootFrom(_, _)
sourceRootFrom(dir, absRoot) ==
    IF dir = absRoot \/ Len(dir) < Len(absRoot) THEN <<>>
    ELSE IF Base(dir) \in {<<"k", "o", "t", "l", "i", "n">>, <<"j", "a", "v", "a">>} THEN dir
    ELSE IF Dir(dir) = dir THEN <<>>
    ELSE sourceRootFrom(Dir(dir), absRoot)

\* computeNewPath
computeNewPath(projectRoot, currentFile, newPackage) ==
    LET packageDir == [i \in 1..Len(newPackage) |->
                          IF newPackage[i] = "." THEN "/" ELSE newPackage[i]]
        fileName   == Base(currentFile)
        root       == sourceRootFrom(Dir(currentFile), projectRoot)
    IN  Join(Join(IF root # <<>> THEN root ELSE projectRoot, packageDir), fileName)

\* ----------------------------------------------------------- the commands
\* a check of the first character only
ValidateFirstCharacter(s) ==
    /\ Len(s) > 0
    /\ s[1] \in Lower \cup Upper \cup {"_"}

\* ValidateIdentifier: ^[a-zA-Z_][a-zA-Z0-9_]*$ matches s
ValidateIdentifier(s) ==
    /\ Len(s) > 0
    /\ s[1] \in Lower \cup Upper \cup {"_"}
    /\ \A i \in 1..Len(s) : isIdentChar(s[i])

\* splitDot
RECURSIVE splitDot(_)
splitDot(s) ==
    LET dots == {i \in 1..Len(s) : s[i] = "."}
    IN  IF dots = {} THEN <<s>>
        ELSE LET d == CHOOSE a \in dots : \A b \in dots : a <= b
             IN  <<SubSeq(s, 1, d - 1)>> \o splitDot(SubSeq(s, d + 1, Len(s)))

\* isValidPackageName
isValidPackageName(pkg) ==
    /\ pkg # <<>>
    /\ \A k \in 1..Len(splitDot(pkg)) :
         LET p == splitDot(pkg)[k]
         IN  /\ p # <<>>
             /\ p[1] \in Lower \cup Upper \cup {"_"}
             /\ \A i \in 2..Len(p) : p[i] \in Lower \cup Upper \cup Digit \cup {"_"}

\* the --type values runRename accepts, with the renamer buildRenameFn builds
SymTypes ==
    [class |-> "class", interface |-> "class", object |-> "class",
     method |-> "method", property |-> "property", parameter |-> "parameter"]

\* the directories above the path p, up to the root
RECURSIVE Ancestors(_)
Ancestors(p) == IF p = <<"/">> THEN {} ELSE {Dir(p)} \cup Ancestors(Dir(p))

\* the callback of CollectKotlinFiles skips a directory with this name
SkippedDir(name) ==
    \/ name # <<>> /\ name[1] = "."
    \/ name \in {<<"b", "u", "i", "l", "d">>, <<"o", "u", "t">>, <<".", "g", "r", "a", "d", "l", "e">>}

\* the walk from root visits the file p
Walked(root, p) ==
    /\ root \in Ancestors(p)
    /\ \A d \in Ancestors(p) \cup {root} :
         (root = d \/ root \in Ancestors(d)) => ~SkippedDir(Base(d))

\* CollectKotlinFiles on the file system fsys: [files, err]; order is the
\* sequence of all paths in the order filepath.WalkDir visits them
CollectKotlinFiles(fsys, order, SingleFile, ProjectRoot, walkOk) ==
    IF SingleFile # <<>>
    THEN [files |-> IF HasSuffix(SingleFile, <<".", "k", "t">>) THEN <<SingleFile>> ELSE <<>>,
          err   |-> FALSE]
    ELSE IF ProjectRoot = <<>> THEN [files |-> <<>>, err |-> FALSE]
    ELSE IF ProjectRoot \notin fsys.dirs \/ ~walkOk THEN [files |-> <<>>, err |-> TRUE]
    ELSE [files |-> SelectSeq(order, LAMBDA p : /\ p \in DOMAIN fsys.files
                                               /\ Walked(ProjectRoot, p)
                                               /\ HasSuffix(p, <<".", "k", "t">>)),
          err   |-> FALSE]

\* the function ApplyToFiles is given: the closure of buildRenameFn for the
\* rename command, the closure around rewriteImport for the move command
callRenameFn(fn, content) ==
    IF fn.cmd = "move"
    THEN returned(rewriteImport(content, fn.old, fn.new))
    ELSE renameFn(fn.r, content, fn.old, fn.new)

\* a loop that does not skip the files whose count is 0
applyResultAnyCount(fsys, path, dryRun, out, writeOk) ==
    IF out.panic
    THEN [fs |-> fsys, panic |-> TRUE, results |-> <<>>,
          log |-> <<[op |-> "read", path |-> path]>>]
    ELSE [fs |-> IF writeOk /\ ~dryRun THEN [fsys EXCEPT !.files[path] = out.text]
                 ELSE fsys,
          panic |-> FALSE,
          results |-> <<[Path |-> path, Replacements |-> out.count,
                         NewContent |-> out.text,
                         Err |-> IF writeOk \/ dryRun THEN "" ELSE "write"]>>,
          log |-> IF dryRun THEN <<[op |-> "read", path |-> path]>>
                  ELSE <<[op |-> "read", path |-> path],
                         [op |-> "write", path |-> path]>>]

\* ApplyToFiles after renameFn returned out for the content of path: the file
\* system after it, the results it appends, the file operations it performs
applyResult(fsys, path, dryRun, out, writeOk) ==
    IF out.panic \/ out.count = 0
    THEN [fs |-> fsys, panic |-> out.panic, results |-> <<>>,
          log |-> <<[op |-> "read", path |-> path]>>]
    ELSE IF dryRun
    THEN [fs |-> fsys, panic |-> FALSE,
          results |-> <<[Path |-> path, Replacements |-> out.count,
                         NewContent |-> out.text, Err |-> ""]>>,
          log |-> <<[op |-> "read", path |-> path]>>]
    ELSE [fs |-> IF writeOk THEN [fsys EXCEPT !.files[path] = out.text] ELSE fsys,
          panic |-> FALSE,
          results |-> <<[Path |-> path, Replacements |-> out.count,
                         NewContent |-> out.text,
                         Err |-> IF writeOk THEN "" ELSE "write"]>>,
          log |-> <<[op |-> "read", path |-> path],
                    [op |-> "write", path |-> path]>>]

\* a loop body that writes whatever dryRun says
applyToFileAlwaysWrite(fsys, path, dryRun, fn, readOk, writeOk) ==
    IF path \notin DOMAIN fsys.files \/ ~readOk
    THEN [fs |-> fsys, panic |-> FALSE,
          results |-> <<[Path |-> path, Replacements |-> 0, NewContent |-> <<>>,
                         Err |-> "read"]>>,
          log |-> <<[op |-> "read", path |-> path]>>]
    ELSE applyResult(fsys, path, FALSE, callRenameFn(fn, fsys.files[path]), writeOk)

\* the body of the loop of ApplyToFiles for one path
applyToFile(fsys, path, dryRun, fn, readOk, writeOk) ==
    IF path \notin DOMAIN fsys.files \/ ~readOk
    THEN [fs |-> fsys, panic |-> FALSE,
          results |-> <<[Path |-> path, Replacements |-> 0, NewContent |-> <<>>,
                         Err |-> "read"]>>,
          log |-> <<[op |-> "read", path |-> path]>>]
    ELSE applyResult(fsys, path, dryRun, callRenameFn(fn, fsys.files[path]), writeOk)

\* -------------------------------------------------------------- the inputs
\* oldName/newName pairs, both valid identifiers: one where the new name is
\* longer (and contains the old one), one where it is shorter, and one where it
\* is the old name again (runRename does not compare the two)
Id        == <<"i", "d">>
IdUser    == <<"i", "d", "U", "s", "e", "r">>
AccountId == <<"a", "c", "c", "o", "u", "n", "t", "I", "d">>
Ac        == <<"a", "c">>

NamePairs == {<<Id, IdUser>>, <<AccountId, Ac>>, <<Id, Id>>}

\* values of the --class flag: absent, or a class name
ClassNames == {<<>>, <<"K">>}

RECURSIVE Concat(_)
Concat(ss) == IF ss = <<>> THEN <<>> ELSE Head(ss) \o Concat(Tail(ss))

SeqsUpTo(S, n) == UNION {[1..k -> S] : k \in 0..n}

\* pieces of Kotlin text around the name o
Fragments(o) ==
    { o,
      <<".">>, <<"v", "a", "l", " ">>, <<"f", "u", "n", " ">>, <<":", ":">>,
      <<"x">>, <<"(">>, <<" ">>, <<" ", "i", "n">>, <<"=">>, <<":">>,
      <<"\"">>, <<"/", "/">> }

FragmentBuffers(o) == {Concat(fs) : fs \in SeqsUpTo(Fragments(o), MaxFrags)}

\* a function: header, body opener, an anonymous function inside the body,
\* reads of the name, body closer, and the text that follows the function
Headers(o) ==
    { <<"f", "u", "n", " ", "f", "(">> \o o \o <<":", "T", ")">>,
      <<"f", "u", "n", " ", "f", "(", "n", ":", "T", ")">>,
      <<"f", "u", "n", " ", "f", "(", "n", ":">> \o o \o <<")">>,
      <<"f", "u", "n", " ", "f", "(">> \o o \o <<":", "T">> }

Openers == {<<"{">>, <<"=">>, <<>>}

Inners(o) ==
    { <<>>,
      <<"f", "u", "n">>,
      <<"f", "u", "n", "(", ")">>,
      <<"f", "u", "n", "(">> \o o \o <<":", "T", ")", "{", "\n">>,
      <<"f", "u", "n", "(", "\n">> \o o \o <<":", "T", ")", "{">>,
      <<"f", "u", "n", "(">> \o o \o <<":", "T", ")", "=">> }

\* n reads of the name
RECURSIVE Reads(_, _)
Reads(o, n) == IF n = 0 THEN <<>> ELSE <<" ">> \o o \o Reads(o, n - 1)

\* what may follow the reads: a call of a function of that name, a longer
\* identifier
LastUses(o) == {<<>>, <<" ">> \o o \o <<"(">>, <<" ">> \o o \o <<"S">>}

Closers == {<<"}">>, <<"\n">>, <<>>}

Tails(o, nw) ==
    { <<>>,
      <<"v", "a", "l", " ">> \o o,
      <<"v", "a", "l", " ">> \o nw,
      <<"c", "l", "a", "s", "s", " ", "K", "(">> \o o \o <<":", "T", ")">>,
      <<"f", "u", "n", " ", "g", "(">> \o o \o <<":", "T", ")", "{">> \o o \o <<"}">> }

FunctionBuffers(o, nw) ==
    { h \o op \o in \o Reads(o, n) \o lu \o cl \o tl :
        h \in Headers(o), op \in Openers, in \in Inners(o),
        n \in 0..MaxUses, lu \in LastUses(o), cl \in Closers, tl \in Tails(o, nw) }

\* The buffers renamed with the pair p.  The fragment buffers exercise the
\* context predicates, which do not read the new name; the function buffers
\* exercise renameParameters, where the lengths of the two names matter.
Buffers(p) ==
    IF p = <<Id, IdUser>>
    THEN FragmentBuffers(p[1]) \cup FunctionBuffers(p[1], p[2])
    ELSE FunctionBuffers(p[1], p[2])

\* ---------------------------------------------------------------- the state
VARIABLES
    src,        \* the content handed to Rename
    oldName,
    newName,
    kind,       \* the --type of the renamer built by buildRenameFn
    ClassName,  \* its ClassName field
    pc,         \* "start", "loop" (inside renameParameters), "done", "panic"
    result,     \* the returned buffer (renameParameters: its local result)
    count,      \* the returned count (renameParameters: its local total)
    locs,       \* renameParameters: matches of \bfun\b not yet visited
    offset,     \* renameParameters: its local offset
    cmd,        \* the command run: "rename", "move", or "none"
    opts,       \* its flags and arguments other than the two names
    dryRun,     \* its --dry-run flag
    fs,         \* the file system: [files: path -> content, dirs: directories]
    fs0,        \* the file system when the command started
    files,      \* ApplyToFiles: the paths not yet processed
    results,    \* ApplyToFiles: its results so far
    ioLog,      \* the file operations performed so far
    err,        \* the error the command returned, "" for none
    plan        \* PackageMove: absFile, newSrcContent, newFilePath, oldFQN, newFQN

cmdVars == <<cmd, opts, dryRun, fs, fs0, files, results, ioLog, err>>

vars == <<src, oldName, newName, kind, ClassName, pc, result, count, locs, offset,
          cmd, opts, dryRun, fs, fs0, files, results, ioLog, err, plan>>

\* the state no command has touched: the renamers and rewriteImport are called
\* on a buffer directly
NoCommand ==
    /\ cmd = "none"
    /\ opts = <<>>
    /\ dryRun = FALSE
    /\ fs = [files |-> <<>>, dirs |-> {}]
    /\ fs0 = fs
    /\ files = <<>>
    /\ results = <<>>
    /\ ioLog = <<>>
    /\ err = ""


Init ==
    /\ \E p \in NamePairs :
         /\ oldName = p[1]
         /\ newName = p[2]
         /\ src \in Buffers(p)
    /\ kind = "none"
    /\ ClassName = <<>>
    /\ pc = "start"
    /\ result = <<>>
    /\ count = 0
    /\ locs = <<>>
    /\ offset = 0
    /\ plan = <<>>
    /\ NoCommand

\* ClassRenamer.Rename
ClassRename ==
    /\ pc = "start"
    /\ LET out == singlePassRename(src, oldName, newName,
                                   [kind |-> "class", ClassName |-> <<>>])
       IN  /\ result' = out.text
           /\ count' = out.count
    /\ kind' = "class"
    /\ pc' = "done"
    /\ UNCHANGED <<src, oldName, newName, ClassName, locs, offset>>
    /\ UNCHANGED <<cmdVars, plan>>

\* MethodRenamer.Rename
MethodRename ==
    /\ pc = "start"
    /\ \E cn \in ClassNames :
         /\ ClassName' = cn
         /\ LET out == singlePassRename(src, oldName, newName,
                                        [kind |-> "method", ClassName |-> cn])
            IN  /\ result' = out.text
                /\ count' = out.count
    /\ kind' = "method"
    /\ pc' = "done"
    /\ UNCHANGED <<src, oldName, newName, locs, offset>>
    /\ UNCHANGED <<cmdVars, plan>>

\* PropertyRenamer.Rename
PropertyRename ==
    /\ pc = "start"
    /\ \E cn \in ClassNames :
         /\ ClassName' = cn
         /\ LET out == singlePassRename(src, oldName, newName,
                                        [kind |-> "property", ClassName |-> cn])
            IN  /\ result' = out.text
                /\ count' = out.count
    /\ kind' = "property"
    /\ pc' = "done"
    /\ UNCHANGED <<src, oldName, newName, locs, offset>>
    /\ UNCHANGED <<cmdVars, plan>>

\* ParameterRenamer.Rename: entry of renameParameters
ParameterRename ==
    /\ pc = "start"
    /\ kind' = "parameter"
    /\ result' = src
    /\ count' = 0
    /\ offset' = 0
    /\ locs' = FindAllStringIndex(src, <<"f", "u", "n">>)
    /\ pc' = "loop"
    /\ UNCHANGED <<src, oldName, newName, ClassName>>
    /\ UNCHANGED <<cmdVars, plan>>

\* one iteration of the loop of renameParameters
ParameterIter ==
    /\ pc = "loop"
    /\ locs # <<>>
    /\ LET st == renameParametersIter(
                     [result |-> result, offset |-> offset, total |-> count,
                      panic |-> FALSE],
                     Head(locs), oldName, newName)
       IN  /\ result' = st.result
           /\ offset' = st.offset
           /\ count' = st.total
           /\ pc' = IF st.panic THEN "panic" ELSE "loop"
    /\ locs' = Tail(locs)
    /\ UNCHANGED <<src, oldName, newName, kind, ClassName>>
    /\ UNCHANGED <<cmdVars, plan>>

\* renameParameters returns
ParameterReturn ==
    /\ pc = "loop"
    /\ locs = <<>>
    /\ pc' = "done"
    /\ UNCHANGED <<src, oldName, newName, kind, ClassName, result, count, locs, offset>>
    /\ UNCHANGED <<cmdVars, plan>>

Next ==
    \/ ClassRename
    \/ MethodRename
    \/ PropertyRename
    \/ ParameterRename
    \/ ParameterIter
    \/ ParameterReturn

Spec == Init /\ [][Next]_vars

\* ------------------------------------------------- rewriteImport on a buffer
\* the number of lines of the buffers given to rewriteImport
MaxLines == 2

\* old and new fully-qualified names as PackageMove builds them
FQNPairs == {[oldFQN |-> <<"p", ".", "A">>, newFQN |-> <<"q", ".", "A">>], [oldFQN |-> <<"A">>, newFQN |-> <<"q", ".", "A">>]}

\* lines of Kotlin text around the qualified name o
ImportLines(o) ==
    { <<"i", "m", "p", "o", "r", "t", " ">> \o o,
      <<"i", "m", "p", "o", "r", "t", " ">> \o o \o <<"B">>,
      <<"i", "m", "p", "o", "r", "t", " ">> \o o \o <<".", "B">>,
      <<"i", "m", "p", "o", "r", "t", " ">> \o o \o <<" ", "a", "s", " ", "U">>,
      <<"i", "m", "p", "o", "r", "t", " ", " ">> \o o \o <<" ">>,
      <<" ", "i", "m", "p", "o", "r", "t", " ">> \o o,
      <<"i", "m", "p", "o", "r", "t", " ">> \o o \o <<";">>,
      <<"i", "m", "p", "o", "r", "t", " ">> \o o \o <<" ", "/", "/", "c">>,
      <<"i", "m", "p", "o", "r", "t">>,
      o,
      <<"v", "a", "l", " ", "x">>,
      <<>> }

RECURSIVE JoinLines(_)
JoinLines(ls) ==
    IF Len(ls) = 1 THEN ls[1] ELSE ls[1] \o <<"\n">> \o JoinLines(Tail(ls))

ImportBuffers(o) ==
    {JoinLines(ls) : ls \in UNION {[1..k -> ImportLines(o)] : k \in 1..MaxLines}}

InitImport ==
    /\ plan \in FQNPairs
    /\ src \in ImportBuffers(plan.oldFQN)
    /\ oldName = <<>>
    /\ newName = <<>>
    /\ kind = "none"
    /\ ClassName = <<>>
    /\ pc = "import"
    /\ result = <<>>
    /\ count = 0
    /\ locs = <<>>
    /\ offset = 0
    /\ NoCommand

\* rewriteImport(content, oldFQN, newFQN) on the buffer src
RewriteImport ==
    /\ pc = "import"
    /\ LET out == rewriteImport(src, plan.oldFQN, plan.newFQN)
       IN  /\ result' = out.text
           /\ count' = out.count
    /\ pc' = "imported"
    /\ UNCHANGED <<src, oldName, newName, kind, ClassName, locs, offset, plan>>
    /\ UNCHANGED cmdVars

NextImport == RewriteImport

SpecImport == InitImport /\ [][NextImport]_vars

\* ------------------------------------------- the commands on a file system
\* the number of files in the file system a command starts on
MaxFiles == 2

\* the project root given with --project
Root == <<"/", "r">>

\* every path a file can have when a command starts, in the order in which
\* filepath.WalkDir visits them
PathsInWalkOrder ==
    << <<"/", "r", "/", "A", ".", "k", "t">>, <<"/", "r", "/", "b", "u", "i", "l", "d", "/", "C", ".", "k", "t">>, <<"/", "r", "/", "k", "o", "t", "l", "i", "n", "/", "p", "/", "A", ".", "k", "t">>, <<"/", "r", "/", "k", "o", "t", "l", "i", "n", "/", "p", "/", "B", ".", "k", "t">>, <<"/", "r", "/", "n", ".", "t", "x", "t">> >>

Paths == {PathsInWalkOrder[i] : i \in 1..Len(PathsInWalkOrder)}

Contents ==
    { <<"p", "a", "c", "k", "a", "g", "e", " ", "p", "\n", "c", "l", "a", "s", "s", " ", "A", "(", "i", "d", ":", "T", ")">>, <<"i", "m", "p", "o", "r", "t", " ", "p", ".", "A", "\n", "f", "u", "n", " ", "f", "(", "i", "d", ":", "T", ")", "=", "i", "d">>, <<"i", "m", "p", "o", "r", "t", " ", "p", ".", "A", "B">> }

\* a file system with at most MaxFiles files, and the directories above them
FileSystems ==
    { [files |-> f,
       dirs  |-> {Root, <<"/">>} \cup UNION {Ancestors(p) : p \in DOMAIN f}] :
        f \in UNION {[S -> Contents] : S \in {T \in SUBSET Paths : Cardinality(T) <= MaxFiles}} }

\* old and new name given to kr rename
RenameArgs ==
    { <<Id, IdUser>>, <<Id, <<"i", "d", "-", "x">>>>, <<<<"1", "d">>, IdUser>>, <<<<"i", " ", "d">>, <<>>>> }

\* values of --type
RenameTypes == {"class", "Object", "method", "property", "parameter", "enum"}

\* values of --file and --project
ScanOptions ==
    { [SingleFile |-> <<>>,       ProjectRoot |-> <<>>],
      [SingleFile |-> <<>>,       ProjectRoot |-> Root],
      [SingleFile |-> <<"/", "r", "/", "A", ".", "k", "t">>,  ProjectRoot |-> <<>>],
      [SingleFile |-> <<"/", "r", "/", "n", ".", "t", "x", "t">>, ProjectRoot |-> Root] }

\* arguments and flags of kr move
MoveOptions ==
    [FilePath    : {<<"/", "r", "/", "k", "o", "t", "l", "i", "n", "/", "p", "/", "A", ".", "k", "t">>, <<"/", "r", "/", "A", ".", "k", "t">>, <<"/", "r", "/", "n", ".", "t", "x", "t">>},
     NewPackage  : {<<"q">>, <<"p">>, <<"9">>},
     ProjectRoot : {Root}]

\* strings.ToLower on a value of --type
ToLower(t) == IF t = "Object" THEN "object" ELSE t

InitFiles ==
    /\ \/ /\ cmd = "rename"
          /\ \E p \in RenameArgs : oldName = p[1] /\ newName = p[2]
          /\ opts \in [renameType : RenameTypes, scan : ScanOptions]
       \/ /\ cmd = "move"
          /\ oldName = <<>>
          /\ newName = <<>>
          /\ opts \in MoveOptions
    /\ dryRun \in BOOLEAN
    /\ fs \in FileSystems
    /\ fs0 = fs
    /\ files = <<>>
    /\ results = <<>>
    /\ ioLog = <<>>
    /\ err = ""
    /\ plan = <<>>
    /\ pc = "cmd"
    /\ src = <<>>
    /\ kind = "none"
    /\ ClassName = <<>>
    /\ result = <<>>
    /\ count = 0
    /\ locs = <<>>
    /\ offset = 0

\* the command returns the error e, or none when e is ""
Return(e) ==
    /\ pc' = "returned"
    /\ err' = e

\* runRename up to its call of ApplyToFiles
RunRename ==
    /\ pc = "cmd"
    /\ cmd = "rename"
    /\ IF ~ValidateIdentifier(oldName) \/ ~ValidateIdentifier(newName)
       THEN Return("invalid Kotlin identifier") /\ UNCHANGED <<kind, files, ioLog>>
       ELSE IF ToLower(opts.renameType) \notin DOMAIN SymTypes
       THEN Return("unknown --type") /\ UNCHANGED <<kind, files, ioLog>>
       ELSE IF opts.scan.SingleFile = <<>> /\ opts.scan.ProjectRoot = <<>>
       THEN Return("provide at least one of --file or --project")
                /\ UNCHANGED <<kind, files, ioLog>>
       ELSE \E walkOk \in BOOLEAN :
              LET c == CollectKotlinFiles(fs, PathsInWalkOrder, opts.scan.SingleFile,
                                          opts.scan.ProjectRoot, walkOk)
              IN  /\ ioLog' = Append(ioLog, [op |-> "collect", path |-> opts.scan])
                  /\ IF c.err
                     THEN Return("scanning files") /\ UNCHANGED <<kind, files>>
                     ELSE IF c.files = <<>>
                     THEN Return("no .kt files found") /\ UNCHANGED <<kind, files>>
                     ELSE /\ kind' = SymTypes[ToLower(opts.renameType)]
                          /\ files' = c.files
                          /\ pc' = "apply"
                          /\ err' = ""
    /\ UNCHANGED <<src, oldName, newName, ClassName, result, count, locs, offset>>
    /\ UNCHANGED <<cmd, opts, dryRun, fs, fs0, results, plan>>

\* runMove, and PackageMove up to its call of ApplyToFiles
RunMove ==
    /\ pc = "cmd"
    /\ cmd = "move"
    /\ IF ~isValidPackageName(opts.NewPackage)
       THEN Return("invalid package name") /\ UNCHANGED <<files, ioLog, plan>>
       ELSE IF ~HasSuffix(opts.FilePath, <<".", "k", "t">>)
       THEN Return("is not a Kotlin file") /\ UNCHANGED <<files, ioLog, plan>>
       ELSE \E readOk, walkOk \in BOOLEAN :
              LET absFile == opts.FilePath
                  read    == [op |-> "read", path |-> absFile]
              IN  IF absFile \notin DOMAIN fs.files \/ ~readOk
                  THEN /\ ioLog' = Append(ioLog, read)
                       /\ Return("reading")
                       /\ UNCHANGED <<files, plan>>
                  ELSE LET srcContent == fs.files[absFile]
                           oldPackage == extractPackage(srcContent)
                           className  == Slice(Base(absFile), 0, Len(Base(absFile)) - 3)
                           c == CollectKotlinFiles(fs, PathsInWalkOrder, <<>>,
                                                   opts.ProjectRoot, walkOk)
                       IN  /\ ioLog' = ioLog \o <<read, [op |-> "collect", path |-> opts.ProjectRoot]>>
                           /\ IF c.err
                              THEN Return("scanning project") /\ UNCHANGED <<files, plan>>
                              ELSE /\ plan' =
                                        [absFile       |-> absFile,
                                         newSrcContent |-> rewritePackageDeclaration(srcContent, opts.NewPackage),
                                         newFilePath   |-> computeNewPath(opts.ProjectRoot, absFile, opts.NewPackage),
                                         oldFQN        |-> IF oldPackage # <<>>
                                                           THEN oldPackage \o <<".">> \o className
                                                           ELSE className,
                                         newFQN        |-> opts.NewPackage \o <<".">> \o className]
                                   /\ files' = SelectSeq(c.files, LAMBDA f : f # absFile)
                                   /\ pc' = "apply"
                                   /\ err' = ""
    /\ UNCHANGED <<src, oldName, newName, kind, ClassName, result, count, locs, offset>>
    /\ UNCHANGED <<cmd, opts, dryRun, fs, fs0, results>>

\* the function the command hands to ApplyToFiles
RenameFn ==
    [cmd |-> cmd,
     r   |-> [kind |-> kind, ClassName |-> ClassName],
     old |-> IF cmd = "move" THEN plan.oldFQN ELSE oldName,
     new |-> IF cmd = "move" THEN plan.newFQN ELSE newName]

\* the effect of one iteration of the loop of ApplyToFiles
Applied(step) ==
    /\ fs' = step.fs
    /\ ioLog' = ioLog \o step.log
    /\ results' = results \o step.results
    /\ IF step.panic
       THEN pc' = "panic" /\ files' = files
       ELSE pc' = "apply" /\ files' = Tail(files)

\* one iteration of the loop of ApplyToFiles; a panic of the rename function
\* ends the process
ApplyToFile ==
    /\ pc = "apply"
    /\ files # <<>>
    /\ \E readOk, writeOk \in BOOLEAN :
         Applied(applyToFile(fs, Head(files), dryRun, RenameFn, readOk, writeOk))
    /\ UNCHANGED <<src, oldName, newName, kind, ClassName, result, count, locs, offset>>
    /\ UNCHANGED <<cmd, opts, dryRun, fs0, err, plan>>

\* ApplyToFiles returns: runRename prints the results; PackageMove returns the
\* result when DryRun is set and goes on to move the file otherwise
ApplyReturn ==
    /\ pc = "apply"
    /\ files = <<>>
    /\ pc' = IF cmd = "move" /\ ~dryRun THEN "mkdir" ELSE "returned"
    /\ UNCHANGED <<src, oldName, newName, kind, ClassName, result, count, locs, offset>>
    /\ UNCHANGED cmdVars
    /\ UNCHANGED plan

\* PackageMove: os.MkdirAll(filepath.Dir(newFilePath))
MoveMkdirAll ==
    /\ pc = "mkdir"
    /\ ioLog' = Append(ioLog, [op |-> "mkdir", path |-> Dir(plan.newFilePath)])
    /\ \E ok \in BOOLEAN :
         IF ok
         THEN /\ fs' = [fs EXCEPT !.dirs = @ \cup Ancestors(plan.newFilePath)]
              /\ pc' = "write"
              /\ err' = err
         ELSE Return("creating directory") /\ fs' = fs
    /\ UNCHANGED <<src, oldName, newName, kind, ClassName, result, count, locs, offset>>
    /\ UNCHANGED <<cmd, opts, dryRun, fs0, files, results, plan>>

\* a move that removes the old file whatever the new path is
removesOldFileAlways(absFile, newFilePath) == TRUE

\* PackageMove: the old file is removed only if it moved to a different path
removesOldFile(absFile, newFilePath) == absFile # newFilePath

\* PackageMove: os.WriteFile(newFilePath, newSrcContent)
MoveWriteFile ==
    /\ pc = "write"
    /\ ioLog' = Append(ioLog, [op |-> "write", path |-> plan.newFilePath])
    /\ \E ok \in BOOLEAN :
         IF ok
         THEN /\ fs' = [fs EXCEPT !.files =
                           [p \in DOMAIN fs.files \cup {plan.newFilePath} |->
                               IF p = plan.newFilePath THEN plan.newSrcContent
                               ELSE fs.files[p]]]
              /\ IF removesOldFile(plan.absFile, plan.newFilePath)
                 THEN pc' = "remove" /\ err' = err
                 ELSE Return("")
         ELSE Return("writing") /\ fs' = fs
    /\ UNCHANGED <<src, oldName, newName, kind, ClassName, result, count, locs, offset>>
    /\ UNCHANGED <<cmd, opts, dryRun, fs0, files, results, plan>>

\* PackageMove: os.Remove(absFile)
MoveRemove ==
    /\ pc = "remove"
    /\ ioLog' = Append(ioLog, [op |-> "remove", path |-> plan.absFile])
    /\ \E ok \in BOOLEAN :
         IF ok
         THEN /\ fs' = [fs EXCEPT !.files =
                           [p \in DOMAIN fs.files \ {plan.absFile} |-> fs.files[p]]]
              /\ Return("")
         ELSE Return("removing old file") /\ fs' = fs
    /\ UNCHANGED <<src, oldName, newName, kind, ClassName, result, count, locs, offset>>
    /\ UNCHANGED <<cmd, opts, dryRun, fs0, files, results, plan>>

NextFiles ==
    \/ RunRename
    \/ RunMove
    \/ ApplyToFile
    \/ ApplyReturn
    \/ MoveMkdirAll
    \/ MoveWriteFile
    \/ MoveRemove

SpecFiles == InitFiles /\ [][NextFiles]_vars

\* ------------------------------------------------- computeNewPath on a path
\* the number of directories of the old package
MaxDepth == 2

\* the path made of the directory dir and the names ns below it
RECURSIVE Below(_, _)
Below(dir, ns) == IF ns = <<>> THEN dir ELSE Below(Join(dir, Head(ns)), Tail(ns))

\* names of package directories
PackageNames == {<<"p">>, <<"j", "a", "v", "a">>, <<"k", "o", "t", "l", "i", "n">>}

\* where the moved file lies: the project root, the directories between it
\* and the source root, the name of the source root (<<>> when the packages
\* lie directly below the directories in between), the directories of the old
\* package, the new package
Layouts ==
    [projectRoot : {<<"/", "r">>, <<"/", "w", "/", "k", "o", "t", "l", "i", "n">>},
     between     : {<<>>, <<<<"s", "r", "c">>, <<"m", "a", "i", "n">>>>},
     sourceRoot  : {<<>>, <<<<"k", "o", "t", "l", "i", "n">>>>, <<<<"j", "a", "v", "a">>>>},
     oldPackage  : UNION {[1..k -> PackageNames] : k \in 0..MaxDepth},
     newPackage  : {<<"q">>, <<"q", ".", "r">>, <<"p">>}]

\* the path of the moved file in the layout l
LayoutFile(l) ==
    Below(l.projectRoot, l.between \o l.sourceRoot \o l.oldPackage \o <<<<"A", ".", "k", "t">>>>)

InitPath ==
    /\ plan \in Layouts
    /\ opts = [FilePath |-> LayoutFile(plan), NewPackage |-> plan.newPackage,
               ProjectRoot |-> plan.projectRoot]
    /\ cmd = "none"
    /\ dryRun = FALSE
    /\ fs = [files |-> <<>>, dirs |-> {}]
    /\ fs0 = fs
    /\ files = <<>>
    /\ results = <<>>
    /\ ioLog = <<>>
    /\ err = ""
    /\ src = <<>>
    /\ oldName = <<>>
    /\ newName = <<>>
    /\ kind = "none"
    /\ ClassName = <<>>
    /\ pc = "path"
    /\ result = <<>>
    /\ count = 0
    /\ locs = <<>>
    /\ offset = 0

\* computeNewPath(opts.ProjectRoot, absFile, opts.NewPackage)
ComputeNewPath ==
    /\ pc = "path"
    /\ result' = computeNewPath(opts.ProjectRoot, opts.FilePath, opts.NewPackage)
    /\ pc' = "pathed"
    /\ UNCHANGED <<src, oldName, newName, kind, ClassName, count, locs, offset, plan>>
    /\ UNCHANGED cmdVars

NextPath == ComputeNewPath

SpecPath == InitPath /\ [][NextPath]_vars


\* ------------------------------- the package declaration of a moved file
\* lines of Kotlin text around a declaration of the package a.b
PackageLines ==
    { <<"p", "a", "c", "k", "a", "g", "e", " ", "a", ".", "b">>,
      <<"p", "a", "c", "k", "a", "g", "e", " ", "a", ".", "b", ";">>,
      <<"p", "a", "c", "k", "a", "g", "e", " ", " ", "a", ".", "b", " ", "/", "/", " ", "c">>,
      <<" ", "p", "a", "c", "k", "a", "g", "e", " ", "a", ".", "b">>,
      <<"p", "a", "c", "k", "a", "g", "e", "\t", "a", ".", "b">>,
      <<"p", "a", "c", "k", "a", "g", "e">>,
      <<"p", "a", "c", "k", "a", "g", "e", "a", ".", "b">>,
      <<"p", "a", "c", "k", "a", "g", "e", " ", "a", ".", "b", "-", "c">>,
      <<"i", "m", "p", "o", "r", "t", " ", "a", ".", "b", ".", "C">>,
      <<"/", "/", " ", "p", "a", "c", "k", "a", "g", "e", " ", "a", ".", "b">>,
      <<"c", "l", "a", "s", "s", " ", "A">>,
      <<>> }

PackageBuffers ==
    {JoinLines(ls) : ls \in UNION {[1..k -> PackageLines] : k \in 1..MaxLines}}

\* values of the new-package argument of kr move
PackageArgs ==
    { <<"q">>, <<"q", ".", "r">>, <<"a", ".", "b">>, <<"p", "a", "c", "k", "a", "g", "e">>, <<"9", "q">>, <<"q", ".", ".", "r">> }

\* runMove calls PackageMove, and PackageMove rewritePackageDeclaration, with
\* a package name that isValidPackageName accepted
InitPackage ==
    /\ opts \in [NewPackage : {p \in PackageArgs : isValidPackageName(p)}]
    /\ src \in PackageBuffers
    /\ plan = <<>>
    /\ oldName = <<>>
    /\ newName = <<>>
    /\ kind = "none"
    /\ ClassName = <<>>
    /\ pc = "package"
    /\ result = <<>>
    /\ count = 0
    /\ locs = <<>>
    /\ offset = 0
    /\ cmd = "none"
    /\ dryRun = FALSE
    /\ fs = [files |-> <<>>, dirs |-> {}]
    /\ fs0 = fs
    /\ files = <<>>
    /\ results = <<>>
    /\ ioLog = <<>>
    /\ err = ""

\* PackageMove: oldPackage := extractPackage(srcContent), newSrcContent :=
\* rewritePackageDeclaration(srcContent, opts.NewPackage)
RewritePackageDeclaration ==
    /\ pc = "package"
    /\ plan' = [oldPackage |-> extractPackage(src)]
    /\ result' = rewritePackageDeclaration(src, opts.NewPackage)
    /\ pc' = "packaged"
    /\ UNCHANGED <<src, oldName, newName, kind, ClassName, count, locs, offset>>
    /\ UNCHANGED cmdVars

NextPackage == RewritePackageDeclaration

SpecPackage == InitPackage /\ [][NextPackage]_vars


\* ------------------------------------------------ vocabulary of the claims
IdentifierChars == Lower \cup Upper \cup Digit \cup {"_"}

\* last index (1-based) of the run of identifier characters that starts at i
RECURSIVE RunEnd(_, _)
RunEnd(s, i) ==
    IF i < Len(s) /\ s[i + 1] \in IdentifierChars THEN RunEnd(s, i + 1) ELSE i

\* The tokens of a buffer in order: each maximal run of identifier characters
\* and each other character, with the zero-based offset where it starts.
RECURSIVE TokensFrom(_, _)
TokensFrom(s, i) ==
    IF i > Len(s) THEN <<>>
    ELSE LET n == IF s[i] \in IdentifierChars THEN RunEnd(s, i) ELSE i
         IN  <<[text |-> SubSeq(s, i, n), start |-> i - 1]>> \o TokensFrom(s, n + 1)

Tokens(s) == TokensFrom(s, 1)

\* name occurs inside the token t, which is longer than name
ProperlyContains(t, name) ==
    /\ Len(t) > Len(name)
    /\ \E i \in 0..(Len(t) - Len(name)) : SubSeq(t, i + 1, i + Len(name)) = name

Done == pc = "done"

\* ti and to are the tokens of the input and of the output.  Aligned: the
\* output has the input's tokens, one for one, so that to[i] is what became of
\* ti[i].
Aligned(ti, to) == Len(to) = Len(ti)

Replaced(ti, to, i) == to[i].text # ti[i].text

\* offset of the first character at or after j that is neither a space nor a
\* tab (Len(s) when there is none)
RECURSIVE PastBlanks(_, _)
PastBlanks(s, j) ==
    IF j < Len(s) /\ s[j + 1] \in {" ", "\t"} THEN PastBlanks(s, j + 1) ELSE j

\* the token t of the buffer s is followed, after optional blanks, by (
FollowedByParen(s, t) ==
    LET j == PastBlanks(s, t.start + Len(t.text))
    IN  j < Len(s) /\ s[j + 1] = "("

\* The scopes of a parameter rename of name in the buffer s: for each fun
\* keyword whose parameter list (from the next parenthesis to its match)
\* declares name, the span <<open, end>> from the list's opening parenthesis
\* to the end of the body, or to the end of the list when there is no body.
ResolvedScopes(s, name) ==
    LET scopeAt(p) ==
            LET rel   == Index(Slice(s, p, Len(s)), <<"(">>)
                open  == p + rel
                close == findMatchingParen(s, open)
                body  == findFunctionBody(s, close + 1)
            IN  IF rel < 0 \/ close < 0 THEN <<-1, -1>>
                ELSE IF ~hasParamName(Slice(s, open, close + 1), name) THEN <<-1, -1>>
                ELSE IF body[1] < 0 THEN <<open, close + 1>>
                ELSE <<open, body[2]>>
        funs == FindAllStringIndex(s, <<"f", "u", "n">>)
    IN  {scopeAt(funs[k][1]) : k \in 1..Len(funs)} \ {<<-1, -1>>}

InScope(scopes, t) ==
    \E sc \in scopes : sc[1] <= t.start /\ t.start + Len(t.text) <= sc[2]

\* C1: a rename never changes an identifier token that contains oldName as a
\* proper substring, for every kind; the tokens that change are occurrences of
\* oldName with no identifier character on either side.
SubstringSafety ==
    Done =>
        LET ti == Tokens(src)
            to == Tokens(result)
        IN  /\ Aligned(ti, to)
            /\ \A i \in 1..Len(ti) :
                 /\ ProperlyContains(ti[i].text, oldName) => ~Replaced(ti, to, i)
                 /\ Replaced(ti, to, i) => ti[i].text = oldName

\* a parameter rename that replaced something, in a scope that also holds a
\* longer identifier containing oldName
SubstringSafetyWitness ==
    /\ Done
    /\ kind = "parameter"
    /\ count > 0
    /\ \E i \in 1..Len(Tokens(src)) :
         /\ ProperlyContains(Tokens(src)[i].text, oldName)
         /\ InScope(ResolvedScopes(src, oldName), Tokens(src)[i])

Accepted(scopes, t) ==
    /\ contextFn([kind |-> kind, ClassName |-> ClassName], src,
                 t.start, t.start + Len(t.text))
    /\ kind = "parameter" => InScope(scopes, t)

\* C3: for every kind the count is the number of accepted occurrences, and the
\* output is the input with exactly the accepted occurrences replaced by
\* newName, everything else unchanged and in order.
CountAndSpansExact ==
    Done =>
        LET ti == Tokens(src)
            to == Tokens(result)
            scopes == ResolvedScopes(src, oldName)
            acc == {i \in 1..Len(ti) : ti[i].text = oldName /\ Accepted(scopes, ti[i])}
        IN  /\ Aligned(ti, to)
            /\ \A i \in 1..Len(ti) :
                 to[i].text = IF i \in acc THEN newName ELSE ti[i].text
            /\ count = Cardinality(acc)

\* C4: a parameter rename changes text only inside the scope of a function
\* whose parameter list declares oldName.
ScopeContainment ==
    (Done /\ kind = "parameter") =>
        LET ti == Tokens(src)
            to == Tokens(result)
            scopes == ResolvedScopes(src, oldName)
        IN  /\ Aligned(ti, to)
            /\ \A i \in 1..Len(ti) : Replaced(ti, to, i) => InScope(scopes, ti[i])

\* C5: every renamer returns normally, with a buffer and a count >= 0; no
\* input makes it panic.
NeverPanics ==
    /\ pc # "panic"
    /\ Done => count >= 0

\* offset of the start of the line that holds offset p
RECURSIVE LineStart(_, _)
LineStart(s, p) == IF p > 0 /\ s[p] # "\n" THEN LineStart(s, p - 1) ELSE p

Quotes(s, lo, hi) == Cardinality({j \in lo..(hi - 1) : s[j + 1] = "\""})

\* offset p of s lies inside a string literal, or after // on its line
InLiteralOrComment(s, p) ==
    LET ls == LineStart(s, p)
    IN  \/ Quotes(s, ls, p) % 2 = 1
        \/ \E j \in ls..(p - 2) :
             /\ s[j + 1] = "/" /\ s[j + 2] = "/"
             /\ Quotes(s, ls, j) % 2 = 0

\* C6: a class, method or property rename never replaces an occurrence of
\* oldName that lies inside a string literal or a comment.
LiteralsAndCommentsKept ==
    (Done /\ kind \in {"class", "method", "property"}) =>
        LET ti == Tokens(src)
            to == Tokens(result)
        IN  /\ Aligned(ti, to)
            /\ \A i \in 1..Len(ti) :
                 InLiteralOrComment(src, ti[i].start) => ~Replaced(ti, to, i)

\* C7: with a class name supplied, a method or property rename accepts only
\* occurrences associated with that class; in a buffer that does not mention
\* the class at all, no occurrence is associated with it and none is replaced.
ClassNameNarrows ==
    (/\ Done
     /\ kind \in {"method", "property"}
     /\ ClassName # <<>>
     /\ \A i \in 1..Len(Tokens(src)) : Tokens(src)[i].text # ClassName) =>
        (count = 0 /\ result = src)

\* C8: a property rename never replaces an occurrence of oldName that is
\* followed, after optional spaces or tabs, by (, whatever precedes it.
PropertyCallExcluded ==
    (Done /\ kind = "property") =>
        LET ti == Tokens(src)
            to == Tokens(result)
        IN  /\ Aligned(ti, to)
            /\ \A i \in 1..Len(ti) :
                 (ti[i].text = oldName /\ FollowedByParen(src, ti[i]))
                     => ~Replaced(ti, to, i)

\* C9: a property rename replaces every word-boundary occurrence of oldName
\* that is not followed by (, whatever token follows it.
PropertyBareReadReplaced ==
    (Done /\ kind = "property") =>
        LET ti == Tokens(src)
            to == Tokens(result)
        IN  /\ Aligned(ti, to)
            /\ \A i \in 1..Len(ti) :
                 (ti[i].text = oldName /\ ~FollowedByParen(src, ti[i]))
                     => to[i].text = newName

\* offset just after the last character before p that is neither a space nor
\* a tab (0 when there is none)
RECURSIVE BeforeBlanks(_, _)
BeforeBlanks(s, p) ==
    IF p > 0 /\ s[p] \in {" ", "\t"} THEN BeforeBlanks(s, p - 1) ELSE p

\* the text of s before offset p, blanks dropped, ends with the keyword kw
EndsWithKeyword(s, p, kw) ==
    LET e == BeforeBlanks(s, p)
    IN  /\ e >= Len(kw)
        /\ SubSeq(s, e - Len(kw) + 1, e) = kw
        /\ (e = Len(kw) \/ s[e - Len(kw)] \notin IdentifierChars)

\* the token t of s is preceded, after optional blanks, by . or val or var
PrecededByDotOrValVar(s, t) ==
    LET e == BeforeBlanks(s, t.start)
    IN  \/ e > 0 /\ s[e] = "."
        \/ EndsWithKeyword(s, t.start, <<"v", "a", "l">>)
        \/ EndsWithKeyword(s, t.start, <<"v", "a", "r">>)

\* C10: a property rename replaces every word-boundary occurrence of oldName
\* that is preceded, after optional spaces or tabs, by . or by the keyword val
\* or var, regardless of what follows the occurrence.
PropertyDeclarationReplaced ==
    (Done /\ kind = "property") =>
        LET ti == Tokens(src)
            to == Tokens(result)
        IN  /\ Aligned(ti, to)
            /\ \A i \in 1..Len(ti) :
                 (ti[i].text = oldName /\ PrecededByDotOrValVar(src, ti[i]))
                     => to[i].text = newName

\* the token t of s is preceded, after optional blanks, by ::
PrecededByColons(s, t) ==
    LET e == BeforeBlanks(s, t.start)
    IN  e >= 2 /\ s[e] = ":" /\ s[e - 1] = ":"

\* the three contexts of a function reference: a method reference, a
\* declaration, a call site
FunctionContext(s, t) ==
    \/ PrecededByColons(s, t)
    \/ EndsWithKeyword(s, t.start, <<"f", "u", "n">>)
    \/ FollowedByParen(s, t)

\* C11: a function rename replaces an occurrence of oldName only if it is
\* preceded by ::, preceded by the keyword fun, or followed by (; every other
\* occurrence is left unchanged and is not counted.
MethodOnlyInContext ==
    (Done /\ kind = "method") =>
        LET ti == Tokens(src)
            to == Tokens(result)
        IN  /\ Aligned(ti, to)
            /\ \A i \in 1..Len(ti) :
                 Replaced(ti, to, i) =>
                     (ti[i].text = oldName /\ FunctionContext(src, ti[i]))
            /\ count <= Cardinality({i \in 1..Len(ti) :
                           ti[i].text = oldName /\ FunctionContext(src, ti[i])})

\* C12: a function rename replaces every word-boundary occurrence of oldName
\* that is preceded by ::, preceded by the keyword fun, or followed by (,
\* whatever text follows it on the line.
MethodAllInContext ==
    (Done /\ kind = "method") =>
        LET ti == Tokens(src)
            to == Tokens(result)
        IN  /\ Aligned(ti, to)
            /\ \A i \in 1..Len(ti) :
                 (ti[i].text = oldName /\ FunctionContext(src, ti[i]))
                     => to[i].text = newName

\* C13: inside the scope of a header that declares oldName, a parameter rename
\* replaces every word-boundary occurrence of oldName that is not followed by
\* ( and replaces no occurrence that is followed by (.
ParameterInScopeReplaced ==
    (Done /\ kind = "parameter") =>
        LET ti == Tokens(src)
            to == Tokens(result)
            scopes == ResolvedScopes(src, oldName)
        IN  /\ Aligned(ti, to)
            /\ \A i \in 1..Len(ti) :
                 (ti[i].text = oldName /\ InScope(scopes, ti[i])) =>
                     IF FollowedByParen(src, ti[i])
                     THEN ~Replaced(ti, to, i)
                     ELSE to[i].text = newName

\* the parameter lists of the buffer s: for each fun keyword, the span
\* <<open, close>> of the next parenthesis and of its match, when both exist
ParameterLists(s) ==
    LET listAt(p) ==
            LET rel == Index(Slice(s, p, Len(s)), <<"(">>)
            IN  IF rel < 0 THEN <<-1, -1>>
                ELSE <<p + rel, findMatchingParen(s, p + rel)>>
        funs == FindAllStringIndex(s, <<"f", "u", "n">>)
    IN  {pl \in {listAt(funs[k][1]) : k \in 1..Len(funs)} : pl[1] >= 0 /\ pl[2] >= 0}

\* offset of the first character at or after j that is not white space
RECURSIVE PastSpace(_, _)
PastSpace(s, j) ==
    IF j < Len(s) /\ s[j + 1] \in {" ", "\t", "\n", "\r", "\f"}
    THEN PastSpace(s, j + 1)
    ELSE j

\* some parameter list of s holds the token name followed by :
SomeHeaderDeclares(s, name) ==
    LET toks == Tokens(s)
        lists == ParameterLists(s)
    IN  \E i \in 1..Len(toks) :
            LET t == toks[i]
                j == PastSpace(s, t.start + Len(t.text))
            IN  /\ t.text = name
                /\ j < Len(s)
                /\ s[j + 1] = ":"
                /\ \E pl \in lists : pl[1] < t.start /\ j < pl[2]

\* C14: when no function header has oldName followed by : in its parameter
\* list, a parameter rename returns the buffer unchanged with count 0.
UndeclaredUnchanged ==
    (Done /\ kind = "parameter" /\ ~SomeHeaderDeclares(src, oldName)) =>
        (result = src /\ count = 0)

\* no header declares oldName, though a parameter list mentions it as a type
\* and the text after the function reads it
UndeclaredUnchangedWitness ==
    /\ Done
    /\ kind = "parameter"
    /\ ~SomeHeaderDeclares(src, oldName)
    /\ LET toks == Tokens(src)
       IN  \E pl \in ParameterLists(src) :
             /\ \E i \in 1..Len(toks) :
                  /\ toks[i].text = oldName
                  /\ pl[1] < toks[i].start
                  /\ toks[i].start < pl[2]
             /\ \E i \in 1..Len(toks) :
                  /\ toks[i].text = oldName
                  /\ toks[i].start > pl[2]

\* the renamer of the finished call
Renamer == [kind |-> kind, ClassName |-> ClassName]

\* number of word-boundary occurrences of name in the buffer s
Occurrences(s, name) ==
    LET toks == Tokens(s)
    IN  Cardinality({i \in 1..Len(toks) : toks[i].text = name})

\* C15: applying rename(old,new) to the output of rename(old,new) performs no
\* replacement: the second call returns count 0 and its output equals its
\* input.  (Stated for distinct names; with newName = oldName every accepted
\* occurrence is replaced by itself and counted again.)
RepeatIsIdle ==
    (Done /\ newName # oldName) =>
        LET again == renameFn(Renamer, result, oldName, newName)
        IN  /\ ~again.panic
            /\ again.count = 0
            /\ again.text = result

\* C16: for a buffer with no word-boundary occurrence of newName,
\* rename(new,old) applied to the output of rename(old,new) returns the
\* original buffer.
RoundTrip ==
    (Done /\ Occurrences(src, newName) = 0) =>
        LET back == renameFn(Renamer, result, newName, oldName)
        IN  /\ ~back.panic
            /\ back.text = src

RECURSIVE ReadsAfterCollect(_, _)
ReadsAfterCollect(log, collected) ==
    IF log = <<>> THEN <<>>
    ELSE IF Head(log).op = "collect" THEN ReadsAfterCollect(Tail(log), TRUE)
    ELSE IF Head(log).op = "read" /\ collected
    THEN <<Head(log).path>> \o ReadsAfterCollect(Tail(log), collected)
    ELSE ReadsAfterCollect(Tail(log), collected)

\* path and count of each result
RECURSIVE Reported(_)
Reported(rs) ==
    IF rs = <<>> THEN <<>>
    ELSE <<[Path |-> Head(rs).Path, Replacements |-> Head(rs).Replacements]>>
             \o Reported(Tail(rs))

\* path and count that a run reports for the paths ps when each file holds
\* what it held when the command started: the files with a count above 0
RECURSIVE CountsOnOriginal(_, _)
CountsOnOriginal(ps, fn) ==
    IF ps = <<>> THEN <<>>
    ELSE LET n == callRenameFn(fn, fs0.files[Head(ps)]).count
         IN  (IF n > 0 THEN <<[Path |-> Head(ps), Replacements |-> n]>> ELSE <<>>)
                 \o CountsOnOriginal(Tail(ps), fn)

\* the results of the files that could be read
Readable(r) == r.Err # "read"

\* C18: with dry-run enabled neither command changes the file system (no file
\* is written, created, moved or removed), and the per-file counts reported
\* are those of a real run on the same files: in every run, dry or real, they
\* are the counts of the rename function on the content each file held when
\* the command started.
DryRunChangesNothing ==
    /\ dryRun =>
         /\ fs = fs0
         /\ \A i \in 1..Len(ioLog) : ioLog[i].op \in {"collect", "read"}
    /\ pc \in {"apply", "returned"} /\ err = "" =>
         LET failed == {results[i].Path : i \in {j \in 1..Len(results) : ~Readable(results[j])}}
         IN  Reported(SelectSeq(results, Readable)) =
                 CountsOnOriginal(SelectSeq(ReadsAfterCollect(ioLog, FALSE),
                                            LAMBDA p : p \notin failed),
                                  RenameFn)

\* a dry run of the move command has returned: imports of other files were to
\* be rewritten and the file was to move to another path
DryRunChangesNothingWitness ==
    /\ dryRun
    /\ cmd = "move"
    /\ pc = "returned"
    /\ err = ""
    /\ plan.absFile # plan.newFilePath
    /\ \E i \in 1..Len(results) : results[i].Err = "" /\ results[i].Replacements > 0

\* the pattern ^[A-Za-z_][A-Za-z0-9_]*$ matches s
MatchesIdentifierPattern(s) ==
    /\ s # <<>>
    /\ \A i \in 1..Len(s) : s[i] \in IdentifierChars
    /\ s[1] \notin Digit

\* C19: the rename command rejects an old or new name that does not match
\* ^[A-Za-z_][A-Za-z0-9_]*$ with an error before any file is collected, read
\* or written: no renamer is invoked and no file is modified.
InvalidNameRejectedFirst ==
    (cmd = "rename" /\ ~(MatchesIdentifierPattern(oldName) /\ MatchesIdentifierPattern(newName))) =>
        /\ ioLog = <<>>
        /\ fs = fs0
        /\ results = <<>>
        /\ pc \in {"cmd", "returned"}
        /\ pc = "returned" => err = "invalid Kotlin identifier"

\* the rename command has returned the error for an invalid new name; the type
\* and the project were valid and a file of the project held the old name
InvalidNameRejectedFirstWitness ==
    /\ cmd = "rename"
    /\ pc = "returned"
    /\ err = "invalid Kotlin identifier"
    /\ MatchesIdentifierPattern(oldName)
    /\ ~MatchesIdentifierPattern(newName)
    /\ ToLower(opts.renameType) \in DOMAIN SymTypes
    /\ opts.scan.ProjectRoot = Root
    /\ opts.scan.SingleFile = <<>>
    /\ ~dryRun
    /\ \E p \in DOMAIN fs.files :
         /\ Walked(Root, p)
         /\ HasSuffix(p, <<".", "k", "t">>)
         /\ Occurrences(fs.files[p], oldName) > 0

\* the lines of the buffer s, without their line feeds
RECURSIVE SplitLines(_)
SplitLines(s) ==
    LET feeds == {i \in 1..Len(s) : s[i] = "\n"}
    IN  IF feeds = {} THEN <<s>>
        ELSE LET f == CHOOSE a \in feeds : \A b \in feeds : a <= b
             IN  <<SubSeq(s, 1, f - 1)>> \o SplitLines(SubSeq(s, f + 1, Len(s)))

\* offset in the line l of the qualified name that l imports, when l is an
\* import statement (blanks, import, blanks, a qualified name); -1 otherwise
ImportedNameAt(l) ==
    LET a == skipWhile(l, 0, SpaceTab)
        b == skipWhile(l, a + 6, SpaceTab)
    IN  IF HasPrefixAt(l, a, <<"i", "m", "p", "o", "r", "t">>) /\ b > a + 6 THEN b ELSE -1

\* the line l is an import statement whose imported qualified name is fqn
Imports(l, fqn) ==
    /\ ImportedNameAt(l) # -1
    /\ Slice(l, ImportedNameAt(l),
             skipWhile(l, ImportedNameAt(l), WordChars \cup {"."})) = fqn

\* the line l with the name it imports, fqn, replaced by new
Reimported(l, fqn, new) ==
    Slice(l, 0, ImportedNameAt(l)) \o new
        \o Slice(l, ImportedNameAt(l) + Len(fqn), Len(l))

\* C20: rewriteImport rewrites exactly the import statements whose imported
\* qualified name equals oldFQN, replacing the name with newFQN and keeping
\* the rest of the statement; imports of a longer name, imports of other
\* names and all other lines are unchanged, and the returned count is the
\* number of rewritten import statements.
ImportsRewrittenExactly ==
    pc = "imported" =>
        LET li == SplitLines(src)
            lo == SplitLines(result)
        IN  /\ Len(lo) = Len(li)
            /\ \A k \in 1..Len(li) :
                 lo[k] = IF Imports(li[k], plan.oldFQN)
                         THEN Reimported(li[k], plan.oldFQN, plan.newFQN)
                         ELSE li[k]
            /\ count = Cardinality({k \in 1..Len(li) : Imports(li[k], plan.oldFQN)})

\* the names of the package pkg, one per directory
PackageDirs(pkg) == splitDot(pkg)

\* C21: a file stored at S/<old package as directories>/<Name>.kt, with S a
\* source root named kotlin or java inside the project root, moves to
\* S/<new package as directories>/<Name>.kt; when no directory between the
\* file and the project root is named kotlin or java, it moves to
\* projectRoot/<new package as directories>/<Name>.kt.
NewPathUnderSourceRoot ==
    pc = "pathed" =>
        LET dirs == plan.between \o plan.sourceRoot \o plan.oldPackage
            S    == Below(plan.projectRoot, plan.between \o plan.sourceRoot)
            to   == PackageDirs(plan.newPackage) \o <<<<"A", ".", "k", "t">>>>
        IN  /\ plan.sourceRoot # <<>> => result = Below(S, to)
            /\ (\A i \in 1..Len(dirs) : dirs[i] \notin {<<"k", "o", "t", "l", "i", "n">>, <<"j", "a", "v", "a">>})
                   => result = Below(plan.projectRoot, to)

\* C22: in renameParameters, at every loop iteration the adjusted position
\* (the keyword's offset in the original buffer plus the accumulated length
\* delta) is a valid index into the updated buffer at which that header's fun
\* keyword begins.
AdjustedPositionAtFun ==
    (kind = "parameter" /\ pc = "loop" /\ locs # <<>>) =>
        LET pos == Head(locs)[1] + offset
        IN  /\ pos >= 0
            /\ pos + 3 <= Len(result)
            /\ MatchWordAt(result, <<"f", "u", "n">>, pos)

\* The scope <<open, end>>, in the updated buffer st.result, that the
\* iteration of renameParameters for the match loc hands to singlePassRename,
\* or <<-1, -1>> when the iteration ends before that call.
ProcessedScope(st, loc, name) ==
    LET funStart == loc[1] + st.offset
        rel      == IF funStart < 0 \/ funStart > Len(st.result) THEN -1
                    ELSE Index(Slice(st.result, funStart, Len(st.result)), <<"(">>)
        open     == rel + funStart
        close    == IF rel < 0 THEN -1 ELSE findMatchingParen(st.result, open)
        body     == findFunctionBody(st.result, close + 1)
    IN  IF rel < 0 \/ close < 0 THEN <<-1, -1>>
        ELSE IF ~hasParamName(Slice(st.result, open, close + 1), name) THEN <<-1, -1>>
        ELSE IF body[1] < 0 THEN <<open, close + 1>>
        ELSE <<open, body[2]>>

\* From the loop state st on, with the matches locs still to visit, every
\* scope processed begins at or after lastEnd, the end (in the buffer as
\* updated so far) of the scope processed before it.
RECURSIVE ScopesInOrder(_, _, _, _, _)
ScopesInOrder(st, ls, lastEnd, old, new) ==
    IF ls = <<>> \/ st.panic THEN TRUE
    ELSE LET sc   == ProcessedScope(st, Head(ls), old)
             next == renameParametersIter(st, Head(ls), old, new)
         IN  IF sc[1] = -1
             THEN ScopesInOrder(next, Tail(ls), lastEnd, old, new)
             ELSE /\ sc[1] >= lastEnd
                  /\ ScopesInOrder(next, Tail(ls), sc[2] + next.offset - st.offset,
                                   old, new)

\* C23: renameParameters processes scopes in strictly increasing buffer order
\* without overlap: a fun keyword inside a scope already renamed is not
\* resolved as a header of its own, so no character is covered by two
\* processed scopes.  (Stated for distinct names; with newName = oldName a
\* nested header still declares the name after the outer scope was renamed.)
ScopesDoNotOverlap ==
    (kind = "parameter" /\ pc = "loop" /\ offset = 0 /\ count = 0
         /\ newName # oldName
         /\ locs = FindAllStringIndex(src, <<"f", "u", "n">>)) =>
        ScopesInOrder([result |-> result, offset |-> 0, total |-> 0, panic |-> FALSE],
                      locs, 0, oldName, newName)

\* the header at the match loc of \bfun\b in the buffer s has a parenthesis
\* after its keyword, and that parenthesis has no match before the end of s
UnclosedHeader(s, loc) ==
    LET rel == Index(Slice(s, loc[1], Len(s)), <<"(">>)
    IN  rel >= 0 /\ findMatchingParen(s, loc[1] + rel) < 0

\* C24: when the parenthesis that opens a header's parameter list has no
\* matching close parenthesis before the end of the buffer, the iteration of
\* renameParameters for that header makes no replacement, and the call does
\* not abort there: the loop goes on to the other headers.
UnclosedHeaderSkipped ==
    (kind = "parameter" /\ pc = "loop" /\ locs # <<>>
         /\ UnclosedHeader(src, Head(locs))) =>
        LET st == renameParametersIter(
                      [result |-> result, offset |-> offset, total |-> count,
                       panic |-> FALSE],
                      Head(locs), oldName, newName)
        IN  /\ ~st.panic
            /\ st.result = result
            /\ st.total = count

\* the last n characters of s
Suffix(s, n) == Slice(s, Len(s) - n, Len(s))

\* The header at the match loc of \bfun\b in the buffer s: the offsets of the
\* parentheses of its parameter list and the body that follows the list, or
\* open = -1 when the list is not there or is not closed.
HeaderAt(s, loc) ==
    LET rel   == Index(Slice(s, loc[1], Len(s)), <<"(">>)
        open  == loc[1] + rel
        close == IF rel < 0 THEN -1 ELSE findMatchingParen(s, open)
    IN  IF rel < 0 \/ close < 0
        THEN [open |-> -1, close |-> -1, body |-> <<-1, -1>>]
        ELSE [open |-> open, close |-> close,
              body |-> findFunctionBody(s, close + 1)]

\* the header declares name in its parameter list
Declares(s, h, name) ==
    h.open >= 0 /\ hasParamName(Slice(s, h.open, h.close + 1), name)

\* C25: when a header that declares oldName has no block body and no
\* expression body after its parameter list, or the opening brace of its block
\* body has no match, the iteration of renameParameters for that header leaves
\* everything after the closing parenthesis of the list unchanged.
NoBodySignatureOnly ==
    (kind = "parameter" /\ pc = "loop" /\ locs # <<>>) =>
        LET h  == HeaderAt(src, Head(locs))
            st == renameParametersIter(
                      [result |-> result, offset |-> offset, total |-> count,
                       panic |-> FALSE],
                      Head(locs), oldName, newName)
            after == Len(src) - (h.close + 1)
        IN  (Declares(src, h, oldName) /\ h.body[1] < 0) =>
                /\ ~st.panic
                /\ Suffix(st.result, after) = Suffix(result, after)

\* the offset just past the end of the line that holds offset p of s
RECURSIVE LineEndAfter(_, _)
LineEndAfter(s, p) ==
    IF p >= Len(s) THEN Len(s)
    ELSE IF s[p + 1] = "\n" THEN p + 1
    ELSE LineEndAfter(s, p + 1)

\* C26: for a header that declares oldName and whose body starts with =, the
\* scope runs from the open parenthesis of the parameter list through the end
\* of the line that holds the = (the end of the buffer when no line feed
\* follows): the iteration of renameParameters for that header renames nothing
\* on the following lines.
ExpressionBodyToLineEnd ==
    (kind = "parameter" /\ pc = "loop" /\ locs # <<>>) =>
        LET h  == HeaderAt(src, Head(locs))
            st == renameParametersIter(
                      [result |-> result, offset |-> offset, total |-> count,
                       panic |-> FALSE],
                      Head(locs), oldName, newName)
            after == Len(src) - LineEndAfter(src, h.body[1])
        IN  (Declares(src, h, oldName) /\ h.body[1] >= 0 /\ At(src, h.body[1]) = "=") =>
                /\ ~st.panic
                /\ h.body[2] = LineEndAfter(src, h.body[1])
                /\ Suffix(st.result, after) = Suffix(result, after)

\* the context predicate of the renamer r without its word-boundary check
\* (the two tests of isIdentChar that open each predicate)
contextFnUnchecked(r, s, start, end) ==
    LET pre        == Slice(s, 0, start)
        post       == TrimLeft(Slice(s, end, Len(s)), SpaceTab)
        trimmedPre == TrimRight(pre, SpaceTab)
    IN  CASE r.kind = "class" -> TRUE
          [] r.kind = "method" ->
                \/ HasSuffix(trimmedPre, <<":", ":">>)
                \/ HasSuffix(trimmedPre, <<"f", "u", "n">>)
                \/ (Len(post) > 0 /\ post[1] = "(")
          [] r.kind = "property" ->
                \/ HasSuffix(trimmedPre, <<".">>)
                \/ HasSuffix(trimmedPre, <<"v", "a", "l">>)
                \/ HasSuffix(trimmedPre, <<"v", "a", "r">>)
                \/ (Len(post) > 0 /\ post[1] = "=" /\ (Len(post) < 2 \/ post[2] # "="))
                \/ (Len(post) > 0 /\ post[1] = ":")
                \/ Len(post) = 0
                \/ post[1] # "("
          [] r.kind = "parameter" -> ~(Len(post) > 0 /\ post[1] = "(")

\* the loop of singlePassRename with the unchecked predicate
RECURSIVE singlePassLoopUnchecked(_, _, _, _, _, _, _)
singlePassLoopUnchecked(s, new, r, ls, buf, last, n) ==
    IF ls = <<>>
    THEN [text |-> buf \o Slice(s, last, Len(s)), count |-> n]
    ELSE LET start == Head(ls)[1]
             end   == Head(ls)[2]
         IN  IF contextFnUnchecked(r, s, start, end)
             THEN singlePassLoopUnchecked(s, new, r, Tail(ls),
                                          buf \o Slice(s, last, start) \o new,
                                          end, n + 1)
             ELSE singlePassLoopUnchecked(s, new, r, Tail(ls), buf, last, n)

\* C27: for every kind, the word-boundary check inside the context predicate
\* never rejects an occurrence that the lexical matcher produced: the rename
\* with that check removed returns the same buffer and the same count.  (For
\* the parameter kind the engine is compared on the whole buffer, as on a
\* scope.)
BoundaryCheckRedundant ==
    Done =>
        LET unchecked == singlePassLoopUnchecked(src, newName, Renamer,
                             FindAllStringIndex(src, oldName), <<>>, 0, 0)
            checked   == IF kind = "parameter"
                         THEN singlePassRename(src, oldName, newName, Renamer)
                         ELSE [text |-> result, count |-> count]
        IN  unchecked = checked

\* the file operations of the log before PackageMove starts to move the file:
\* those of the loop of ApplyToFiles and of the calls before it
RECURSIVE BeforeMkdir(_)
BeforeMkdir(log) ==
    IF log = <<>> \/ Head(log).op = "mkdir" THEN <<>>
    ELSE <<Head(log)>> \o BeforeMkdir(Tail(log))

\* the paths ApplyToFiles has called os.WriteFile on
WrittenByApply ==
    LET log == BeforeMkdir(ioLog)
    IN  {log[i].path : i \in {j \in 1..Len(log) : log[j].op = "write"}}

\* PackageMove has not started to move the file
NothingMoved == \A i \in 1..Len(ioLog) : ioLog[i].op \notin {"mkdir", "remove"}

\* C28: ApplyToFiles writes a file if and only if dryRun is false and the
\* rename function returned a count greater than 0 for its content; a file
\* whose count is 0 is neither written nor listed in the results, and the
\* content written is exactly the buffer returned by the rename function.
WritesExactlyWhenCounted ==
    LET reads  == ReadsAfterCollect(ioLog, FALSE)
        failed == {results[i].Path : i \in {j \in 1..Len(results) : ~Readable(results[j])}}
        listed == {results[i].Path : i \in 1..Len(results)}
        intact == {results[i].Path : i \in {j \in 1..Len(results) : results[j].Err = ""}}
    IN  /\ WrittenByApply \subseteq {reads[k] : k \in 1..Len(reads)} \ failed
        /\ \A k \in 1..Len(reads) :
             reads[k] \notin failed =>
                 LET out == callRenameFn(RenameFn, fs0.files[reads[k]])
                     returnedCount == IF out.panic THEN 0 ELSE out.count
                 IN  /\ reads[k] \in WrittenByApply <=> (~dryRun /\ returnedCount > 0)
                     /\ returnedCount = 0 => reads[k] \notin listed
                     /\ (reads[k] \in WrittenByApply /\ reads[k] \in intact /\ NothingMoved)
                            => fs.files[reads[k]] = out.text

\* a real run of the rename command has returned: one file was written with
\* the renamed buffer, another file held no occurrence and is not listed
WritesExactlyWhenCountedWitness ==
    /\ cmd = "rename"
    /\ ~dryRun
    /\ pc = "returned"
    /\ err = ""
    /\ LET reads == ReadsAfterCollect(ioLog, FALSE)
       IN  /\ \E k \in 1..Len(reads) :
                /\ reads[k] \in WrittenByApply
                /\ fs.files[reads[k]] # fs0.files[reads[k]]
                /\ fs.files[reads[k]] = callRenameFn(RenameFn, fs0.files[reads[k]]).text
           /\ \E k \in 1..Len(reads) :
                /\ reads[k] \notin WrittenByApply
                /\ \A i \in 1..Len(results) : results[i].Path # reads[k]
                /\ fs.files[reads[k]] = fs0.files[reads[k]]

\* the new path holds the rewritten content of the moved file
NewPathWritten ==
    /\ plan.newFilePath \in DOMAIN fs.files
    /\ fs.files[plan.newFilePath] = plan.newSrcContent

\* C29: PackageMove removes the original file only after the rewritten content
\* has been written successfully to the new path, and only when the new path
\* differs from the original path; so whenever PackageMove returns an error
\* the file still exists at its original path.
RemoveOnlyAfterWrite ==
    cmd = "move" =>
        /\ (\E i \in 1..Len(ioLog) : ioLog[i].op = "remove") =>
              /\ plan.newFilePath # plan.absFile
              /\ NewPathWritten
              /\ \A i \in 1..Len(ioLog) :
                   ioLog[i].op = "remove" =>
                       /\ ioLog[i].path = plan.absFile
                       /\ \E j \in 1..(i - 1) :
                            ioLog[j] = [op |-> "write", path |-> plan.newFilePath]
        /\ (opts.FilePath \in DOMAIN fs0.files /\ opts.FilePath \notin DOMAIN fs.files) =>
              /\ pc = "returned"
              /\ err = ""
              /\ plan.newFilePath # opts.FilePath
              /\ NewPathWritten

\* the move wrote the rewritten content to a different path, the removal of
\* the original failed, and PackageMove returned that error: the file is at
\* both paths
RemoveOnlyAfterWriteWitness ==
    /\ cmd = "move"
    /\ pc = "returned"
    /\ err = "removing old file"
    /\ plan.newFilePath # plan.absFile
    /\ NewPathWritten
    /\ plan.absFile \in DOMAIN fs.files
    /\ ioLog[Len(ioLog)] = [op |-> "remove", path |-> plan.absFile]

\* the text of a declaration of the package p
PackageDecl(p) == <<"p", "a", "c", "k", "a", "g", "e", " ">> \o p

\* C30: for any source text and any valid package name p,
\* extractPackage(rewritePackageDeclaration(src, p)) equals p: when src has a
\* line-initial package declaration it is replaced by `package p` and every
\* declaration of the result declares p, otherwise `package p` and an empty
\* line are prepended and the original text follows unchanged.
PackageRoundTrip ==
    pc = "packaged" =>
        LET p == opts.NewPackage
            m == packageDeclFind(src)
        IN  /\ extractPackage(result) = p
            /\ IF m[1] # -1
               THEN /\ Slice(result, 0, m[1]) = Slice(src, 0, m[1])
                    /\ HasPrefixAt(result, m[1], PackageDecl(p))
                    /\ \A i \in 0..Len(result) :
                         packageDeclAt(result, i) # -1 =>
                             Slice(result, i, packageDeclAt(result, i)) = PackageDecl(p)
               ELSE result = PackageDecl(p) \o <<"\n", "\n">> \o src

\* a buffer that declared another package, on two lines, was rewritten
PackageRoundTripWitness ==
    /\ pc = "packaged"
    /\ plan.oldPackage # <<>>
    /\ plan.oldPackage # opts.NewPackage
    /\ Cardinality({i \in 0..Len(src) : packageDeclAt(src, i) # -1}) = 2
    /\ result # src

=============================================================================
